---- MODULE Spec2Model ----
(***************************************************************************)
(* Request dispatch, authentication and pagination of the Coinbase client. *)
(*                                                                         *)
(* Strings are modelled as sequences of tokens: a path is a sequence of    *)
(* segments (the pieces between "/") plus a query string, and a query      *)
(* string is the flat sequence of its tokens <<"?", k, "=", v, "&", ...>>. *)
(* An asynchronous call is a record with a position (pc); one action is    *)
(* the code that runs between two awaits.                                  *)
(***************************************************************************)
EXTENDS Integers, Sequences, FiniteSets, TLC

VARIABLES options, calls, page, issued

vars == <<options, calls, page, issued>>

----------------------------------------------------------------------------
(* Bounds of the model                                                      *)

\* Number of call slots (asynchronous calls that can be in flight together).
NumCalls == 2

\* Longest argument mapping given to a request.
MaxArgs == 3

\* Number of token pairs the authorization server issues in one run.
MaxIssued == 3

Calls == 1..NumCalls

----------------------------------------------------------------------------
(* Values                                                                   *)

\* The JavaScript value undefined, and what String(undefined) gives.
Undefined == "<undefined>"

Null == "<null>"

Str(v) == IF v = Undefined THEN "undefined" ELSE IF v = Null THEN "null" ELSE v

\* type RequestMethod
RequestMethod == {"GET", "POST", "PUT", "DELETE"}

\* A path segment: literal text, or ":" followed by a name.
Lit(s) == [ph |-> FALSE, s |-> s]

Ph(name) == [ph |-> TRUE, s |-> name]

\* args?: JsonObject -- absent, or an insertion-ordered mapping.
NoArgs == [present |-> FALSE, kv |-> <<>>]

Obj(kv) == [present |-> TRUE, kv |-> kv]

\* argName in args
HasKey(kv, k) == \E i \in 1..Len(kv) : kv[i].k = k

\* args[argName]
Get(kv, k) == kv[CHOOSE i \in 1..Len(kv) : kv[i].k = k].v

IsNotKey(e, k) == e.k # k

\* delete args[argName]: the other entries keep their order.
Delete(kv, k) == SelectSeq(kv, LAMBDA e : IsNotKey(e, k))

Keys(kv) == {kv[i].k : i \in 1..Len(kv)}

----------------------------------------------------------------------------
(* Coinbase.request, first half: path substitution, query string and body   *)

\* The loop over pathParts from index i on. The inner test
\* "argName === undefined" never holds (argName is a slice of a string), so
\* a key whose value is undefined is substituted as the text "undefined".
RECURSIVE SubstituteFrom(_, _, _)
SubstituteFrom(parts, kv, i) ==
  IF i > Len(parts)
  THEN [ok |-> TRUE, parts |-> parts, kv |-> kv, missing |-> ""]
  ELSE IF parts[i].ph
       THEN IF HasKey(kv, parts[i].s)
            THEN SubstituteFrom([parts EXCEPT ![i] = Lit(Str(Get(kv, parts[i].s)))],
                                Delete(kv, parts[i].s), i + 1)
            ELSE [ok |-> FALSE, parts |-> parts, kv |-> kv, missing |-> parts[i].s]
       ELSE SubstituteFrom(parts, kv, i + 1)

\* One step of the reduce callback: entry number index (0-based) of argLength.
QueryStep(previous, current, index, argLength) ==
  IF current.v # Undefined
  THEN previous \o <<current.k, "=", Str(current.v)>>
                \o (IF index < argLength - 1 THEN <<"&">> ELSE <<>>)
  ELSE previous

RECURSIVE QueryFrom(_, _, _)
QueryFrom(kv, i, previous) ==
  IF i > Len(kv)
  THEN previous
  ELSE QueryFrom(kv, i + 1, QueryStep(previous, kv[i], i - 1, Len(kv)))

\* Object.entries(args).reduce(..., "?")
BuildQuery(kv) == QueryFrom(kv, 1, <<"?">>)

\* let body: undefined unless the verb branch assigns it.
BodyOf(method, kv) ==
  IF Len(kv) > 0 /\ method = "POST" THEN Obj(kv) ELSE NoArgs

\* The path with the query string appended, for GET with leftover args.
QueryOf(method, kv) ==
  IF Len(kv) > 0 /\ method = "GET" THEN BuildQuery(kv) ELSE <<>>

\* The error thrown by a call; status 0 stands for "no status property".
NoError == [kind |-> "none", status |-> 0, messages |-> <<>>, name |-> ""]

Error(kind) == [kind |-> kind, status |-> 0, messages |-> <<>>, name |-> ""]

MissingPathArgument(name) ==
  [kind |-> "missing path argument", status |-> 0, messages |-> <<>>, name |-> name]

\* The whole resolution: newParameters, or the error thrown. "args" is the
\* caller's object after the call (the code works on Object.assign({}, args)).
Resolve(parameters) ==
  IF parameters.args.present
  THEN LET r == SubstituteFrom(parameters.path, parameters.args.kv, 1)
       IN IF r.ok
          THEN [err |-> NoError,
                method |-> parameters.method,
                path |-> [segs |-> r.parts, query |-> QueryOf(parameters.method, r.kv)],
                residual |-> r.kv,
                body |-> BodyOf(parameters.method, r.kv),
                args |-> parameters.args]
          ELSE [err |-> MissingPathArgument(r.missing),
                method |-> parameters.method,
                path |-> [segs |-> parameters.path, query |-> <<>>],
                residual |-> r.kv,
                body |-> NoArgs,
                args |-> parameters.args]
  ELSE [err |-> NoError,
        method |-> parameters.method,
        path |-> [segs |-> parameters.path, query |-> <<>>],
        residual |-> <<>>,
        body |-> NoArgs,
        args |-> parameters.args]

----------------------------------------------------------------------------
(* JSON values exchanged with the server                                    *)

\* A "data" payload: absent, null, an array (a page) or an object. The id
\* names the payload; for the time endpoint's object it is its epoch.
NoData == [t |-> "undefined", id |-> ""]

NullData == [t |-> "null", id |-> ""]

ArrayData(id) == [t |-> "array", id |-> id]

ObjectData(id) == [t |-> "object", id |-> id]

\* Array.isArray(data)
IsArray(d) == d.t = "array"

\* if (response.data): arrays and objects are truthy, null and undefined not.
Truthy(d) == d.t \in {"array", "object"}

\* interface CoinbasePagination, reduced to the two cursor URIs.
NoPagination == [present |-> FALSE, next_uri |-> Null, previous_uri |-> Null]

Pagination(previous_uri, next_uri) ==
  [present |-> TRUE, next_uri |-> next_uri, previous_uri |-> previous_uri]

\* if (next_uri): null, undefined and the empty string are falsy.
TruthyUri(uri) == uri \notin {Null, Undefined, ""}

NoErrors == [present |-> FALSE, list |-> <<>>]

Errors(list) == [present |-> TRUE, list |-> list]

\* A response body: parse says whether it is JSON at all; the other fields
\* are the members of the parsed object (absent members are undefined).
Json(data, pagination, errors, access_token, refresh_token, epoch) ==
  [parse |-> TRUE, data |-> data, pagination |-> pagination, errors |-> errors,
   access_token |-> access_token, refresh_token |-> refresh_token, epoch |-> epoch]

EmptyJson == Json(NoData, NoPagination, NoErrors, Undefined, Undefined, Undefined)

NotJson == [EmptyJson EXCEPT !.parse = FALSE]

Envelope(data, pagination) ==
  Json(data, pagination, NoErrors, Undefined, Undefined, Undefined)

ErrorBody(list) == Json(NoData, NoPagination, Errors(list), Undefined, Undefined, Undefined)

TokenBody(access_token, refresh_token) ==
  Json(NoData, NoPagination, NoErrors, access_token, refresh_token, Undefined)

Response(status, body) == [status |-> status, body |-> body]

\* result.ok of node-fetch: a status in the 2xx range.
Ok(resp) == resp.status >= 200 /\ resp.status < 300

----------------------------------------------------------------------------
(* Coinbase.coinbaseRequest: one HTTP call and the reading of its response  *)

\* class RequestError: messages defaults to [] when json.errors is undefined.
RequestError(status, errors) ==
  [kind |-> "RequestError", status |-> status,
   messages |-> IF errors.present THEN errors.list ELSE <<>>, name |-> ""]

\* JSON.stringify drops the members whose value is undefined.
IsDefined(e) == e.v # Undefined

Stringify(body) ==
  IF body.present THEN Obj(SelectSeq(body.kv, IsDefined)) ELSE NoArgs

NoHeaders ==
  [auth |-> "none", token |-> Undefined, key |-> Undefined,
   sign |-> [secret |-> Undefined, payload |-> <<>>], timestamp |-> Undefined]

\* The arguments of fetch().
Fetch(parameters, headers) ==
  [method |-> parameters.method, path |-> parameters.path,
   body |-> Stringify(parameters.body), headers |-> headers]

\* What coinbaseRequest settles with once the response is in: result.json()
\* rejects on a body that is not JSON, before the status is looked at.
Settle(resp) ==
  IF ~resp.body.parse
  THEN [err |-> Error("invalid json"), json |-> EmptyJson]
  ELSE IF Ok(resp)
       THEN [err |-> NoError, json |-> resp.body]
       ELSE [err |-> RequestError(resp.status, resp.body.errors), json |-> EmptyJson]

----------------------------------------------------------------------------
(* Coinbase.request, second half: unwrapping the response                   *)

\* The value request() resolves with: a PaginatedResult, the bare data
\* payload, or the whole response object.
NoResult ==
  [kind |-> "undefined", data |-> NoData, pagination |-> NoPagination, json |-> EmptyJson]

PaginatedResult(data, pagination) ==
  [kind |-> "PaginatedResult", data |-> data, pagination |-> pagination, json |-> EmptyJson]

Unwrap(response) ==
  IF Truthy(response.data)
  THEN IF response.pagination.present /\ IsArray(response.data)
       THEN PaginatedResult(response.data, response.pagination)
       ELSE [kind |-> "data", data |-> response.data,
             pagination |-> NoPagination, json |-> EmptyJson]
  ELSE [kind |-> "response", data |-> NoData,
        pagination |-> NoPagination, json |-> response]

\* Reading the member "pagination" of whatever request() returned: the
\* private field of a PaginatedResult, the member of the response object;
\* an array or a resource object has no such member.
PaginationOf(res) ==
  IF res.kind = "PaginatedResult" THEN res.pagination
  ELSE IF res.kind = "response" THEN res.json.pagination
  ELSE NoPagination

\* Reading the member "data" of whatever request() returned.
DataOf(res) ==
  IF res.kind = "PaginatedResult" THEN res.data
  ELSE IF res.kind = "response" THEN res.json.data
  ELSE NoData

\* Reading the members of the token response returned by getOAuthAccessToken.
TokensOf(res) ==
  IF res.kind = "response"
  THEN [access_token |-> res.json.access_token, refresh_token |-> res.json.refresh_token]
  ELSE [access_token |-> Undefined, refresh_token |-> Undefined]

\* (await this.data.getTime()).epoch
EpochOf(res) ==
  IF res.kind = "data" /\ res.data.t = "object" THEN res.data.id
  ELSE IF res.kind = "response" THEN res.json.epoch
  ELSE Undefined

\* data = [data]: the one-element array holding the payload.
Singleton(data) == ArrayData("[" \o data.t \o ":" \o data.id \o "]")

----------------------------------------------------------------------------
(* The client and its calls                                                 *)

\* CoinbaseOptions; present is FALSE for a client constructed without them.
NoAuth ==
  [apiKey |-> Undefined, apiSecret |-> Undefined, clientId |-> Undefined,
   clientSecret |-> Undefined, accessToken |-> Undefined,
   refreshToken |-> Undefined, refreshCallback |-> FALSE]

NoOptions == [present |-> FALSE, authStrategy |-> Undefined, auth |-> NoAuth]

ApiKeyOptions ==
  [present |-> TRUE, authStrategy |-> "apikey",
   auth |-> [NoAuth EXCEPT !.apiKey = "key", !.apiSecret = "secret"]]

AccessToken(n) == "access" \o ToString(n)

RefreshToken(n) == "refresh" \o ToString(n)

OAuthOptions(refreshCallback) ==
  [present |-> TRUE, authStrategy |-> "oauth",
   auth |-> [NoAuth EXCEPT !.clientId = "id", !.clientSecret = "cs",
                           !.accessToken = AccessToken(0),
                           !.refreshToken = RefreshToken(0),
                           !.refreshCallback = refreshCallback]]

OtherOptions == [present |-> TRUE, authStrategy |-> "basic", auth |-> NoAuth]

NoParameters == [method |-> "GET", path |-> <<>>, args |-> NoArgs]

NoRequest == [method |-> "GET", path |-> [segs |-> <<>>, query |-> <<>>], body |-> NoArgs]

NoTokens == [access_token |-> Undefined, refresh_token |-> Undefined]

\* A call that has not been made. kind: "request", "nextPage", "previousPage".
\* http: the HTTP calls it issued; received: the responses to them;
\* trace: the steps it took, in order.
Idle ==
  [pc |-> "idle", kind |-> "request", parameters |-> NoParameters, auth |-> TRUE,
   args |-> NoArgs, residual |-> <<>>, req |-> NoRequest, http |-> <<>>,
   received |-> <<>>,
   err |-> NoError, caught |-> NoError, result |-> NoResult, tokens |-> NoTokens,
   callbacks |-> <<>>, trace |-> <<>>]

Send(call, parameters, headers, pc, step) ==
  [call EXCEPT !.http = Append(@, Fetch(parameters, headers)),
               !.pc = pc, !.trace = Append(@, step)]

Receive(call, resp) ==
  [call EXCEPT !.received = Append(@, resp), !.trace = Append(@, "receive")]

Fail(call, err) ==
  [call EXCEPT !.pc = "failed", !.err = err, !.trace = Append(@, "throw")]

Done(call, result) ==
  [call EXCEPT !.pc = "done", !.result = result, !.trace = Append(@, "return")]

----------------------------------------------------------------------------
(* Authentication: authedRequest, apiKeyRequest, oauthRequest               *)

\* Authorization: `Bearer ${oauth.accessToken}`
Bearer(accessToken) ==
  [NoHeaders EXCEPT !.auth = "bearer", !.token = Str(accessToken)]

\* The three CB-ACCESS headers; the HMAC is kept as its key and its input.
Signed(apiKeys, timestamp, parameters) ==
  [NoHeaders EXCEPT
     !.auth = "apikey", !.key = apiKeys.apiKey, !.timestamp = timestamp,
     !.sign = [secret |-> apiKeys.apiSecret,
               payload |-> <<timestamp, parameters.method, parameters.path,
                             Stringify(parameters.body)>>]]

\* data.getTime: createMethod(this, "GET", "/v2/time", false)
TimeParameters ==
  [method |-> "GET", path |-> <<Lit(""), Lit("v2"), Lit("time")>>, args |-> NoArgs]

\* The argument of getOAuthAccessToken in the 401 handler.
RefreshArguments(oauth) ==
  Obj(<<[k |-> "grant_type", v |-> "refresh_token"],
        [k |-> "refresh_token", v |-> oauth.refreshToken],
        [k |-> "client_id", v |-> oauth.clientId],
        [k |-> "client_secret", v |-> oauth.clientSecret]>>)

\* getOAuthAccessToken: createMethodWithArgs(this, "POST", "/oauth/token", false)
TokenParameters(args) ==
  [method |-> "POST", path |-> <<Lit(""), Lit("oauth"), Lit("token")>>, args |-> args]

\* newParameters = { method, path, args: body }
NewParameters(r) == [method |-> r.method, path |-> r.path, body |-> r.body]

\* apiKeyRequest up to its first await: the time fetch is sent, unauthenticated.
ApiKeyRequest(call) ==
  Send(call, NewParameters(Resolve(TimeParameters)), NoHeaders, "time", "send")

\* oauthRequest up to its first await: the call is sent with the bearer header.
OAuthRequest(call, oauth) ==
  Send(call, call.req, Bearer(oauth.accessToken), "first", "send")

\* AuthedRequest letting a client without options through, unauthenticated.
AuthedRequestLenient(call, opts) ==
  IF ~opts.present
  THEN Send(call, call.req, NoHeaders, "plain", "send")
  ELSE IF opts.authStrategy = "apikey" THEN ApiKeyRequest(call)
  ELSE IF opts.authStrategy = "oauth" THEN OAuthRequest(call, opts.auth)
  ELSE Fail(call, Error("Unrecognized authStrategy"))

\* authedRequest: the strategy tag picks the flow.
AuthedRequest(call, opts) ==
  IF ~opts.present
  THEN Fail(call, Error("Missing authentication"))
  ELSE IF opts.authStrategy = "apikey" THEN ApiKeyRequest(call)
  ELSE IF opts.authStrategy = "oauth" THEN OAuthRequest(call, opts.auth)
  ELSE Fail(call, Error("Unrecognized authStrategy"))

\* request() up to its first await (or to the error it throws before one).
Request(call, parameters, auth, opts) ==
  LET r == Resolve(parameters)
      started == [call EXCEPT !.parameters = parameters, !.auth = auth,
                              !.args = r.args, !.residual = r.residual,
                              !.req = NewParameters(r)]
  IN IF r.err # NoError THEN Fail(started, r.err)
     ELSE IF auth THEN AuthedRequest(started, opts)
     ELSE Send(started, started.req, NoHeaders, "plain", "send")

\* ListRequest without the test for the pagination object.
ListRequestUnchecked(call, listResponse) ==
  LET pagination == PaginationOf(listResponse)
      data == DataOf(listResponse)
  IN Done(call, PaginatedResult(IF IsArray(data) THEN data ELSE Singleton(data),
                                pagination))

\* ListRequest handing back the cursor of the instance instead of the fetched one.
ListRequestStaleCursor(call, listResponse) ==
  LET pagination == PaginationOf(listResponse)
      data == DataOf(listResponse)
  IN IF ~pagination.present
     THEN Fail(call, Error("no pagination object"))
     ELSE Done(call, PaginatedResult(IF IsArray(data) THEN data ELSE Singleton(data),
                                     page.pagination))

\* listRequest after its await: the cursor is required, the payload made an array.
ListRequest(call, listResponse) ==
  LET pagination == PaginationOf(listResponse)
      data == DataOf(listResponse)
  IN IF ~pagination.present
     THEN Fail(call, Error("no pagination object"))
     ELSE Done(call, PaginatedResult(IF IsArray(data) THEN data ELSE Singleton(data),
                                     pagination))

\* The end of request(), and of the page fetch that awaits it.
Finish(call, response) ==
  IF call.kind = "request"
  THEN Done(call, Unwrap(response))
  ELSE ListRequest(call, Unwrap(response))

\* coinbaseRequest settles and nothing catches: the error goes to the caller.
Complete(call, resp) ==
  LET out == Settle(resp)
  IN IF out.err # NoError THEN Fail(call, out.err) ELSE Finish(call, out.json)

\* Catch with the status test left out: every failure starts a refresh.
CatchAny(call, e, oauth) ==
  Send([call EXCEPT !.caught = e],
       NewParameters(Resolve(TokenParameters(RefreshArguments(oauth)))),
       NoHeaders, "refresh", "send")

\* The catch block of oauthRequest: only status 401 starts a refresh.
Catch(call, e, oauth) ==
  IF e.status = 401
  THEN Send([call EXCEPT !.caught = e],
            NewParameters(Resolve(TokenParameters(RefreshArguments(oauth)))),
            NoHeaders, "refresh", "send")
  ELSE Fail([call EXCEPT !.caught = e], e)

\* StoreTokens behind a guard: only the first refresh of the client is stored.
StoreTokensOnce(opts, tokens) ==
  IF opts.auth.accessToken = AccessToken(0)
  THEN [opts EXCEPT !.auth.refreshToken = tokens.refresh_token,
                    !.auth.accessToken = tokens.access_token]
  ELSE opts

\* oauth.refreshToken = ...; oauth.accessToken = ...
StoreTokens(opts, tokens) ==
  [opts EXCEPT !.auth.refreshToken = tokens.refresh_token,
               !.auth.accessToken = tokens.access_token]

\* AfterRefresh with the callback called but not awaited.
AfterRefreshNoAwait(call, tokens, oauth) ==
  LET stored == [call EXCEPT !.tokens = tokens, !.trace = Append(@, "store")]
      called == IF oauth.refreshCallback
                THEN [stored EXCEPT !.callbacks = Append(@, tokens),
                                    !.trace = Append(@, "callback")]
                ELSE stored
  IN Send(called, called.req, Bearer(oauth.accessToken), "retry", "send")

\* After the tokens are stored: the callback is called and awaited if there
\* is one, else the original call is sent again at once.
AfterRefresh(call, tokens, oauth) ==
  LET stored == [call EXCEPT !.tokens = tokens, !.trace = Append(@, "store")]
  IN IF oauth.refreshCallback
     THEN [stored EXCEPT !.pc = "callback", !.callbacks = Append(@, tokens),
                         !.trace = Append(@, "callback")]
     ELSE Send(stored, stored.req, Bearer(oauth.accessToken), "retry", "send")

\* After the awaited callback: the original call is sent again.
Retry(call, oauth) ==
  Send([call EXCEPT !.trace = Append(@, "callback done")],
       call.req, Bearer(oauth.accessToken), "retry", "send")

\* SignedRequest stamping the call with a local clock, not the fetched epoch.
SignedRequestLocalClock(call, time, apiKeys) ==
  Send(call, call.req, Signed(apiKeys, "1500000000", call.req),
       "signed", "send")

\* apiKeyRequest after the time fetch: the signed call.
SignedRequest(call, time, apiKeys) ==
  Send(call, call.req, Signed(apiKeys, Str(EpochOf(time)), call.req),
       "signed", "send")

----------------------------------------------------------------------------
(* Actions: the code between two awaits of one call                         *)

\* A generated endpoint method is called: instance.apiRequest(parameters, auth).
\* The class has one dispatcher of that signature, request(), which is the
\* one modelled here (PaginatedResult calls it by that name).
ApiRequest(c, parameters, auth) ==
  /\ calls[c].pc = "idle"
  /\ calls' = [calls EXCEPT ![c] = Request([Idle EXCEPT !.kind = "request"],
                                           parameters, auth, options)]
  /\ UNCHANGED <<options, page, issued>>

\* listRequest(uri) up to its await: request({ method: 'GET', path: uri }).
ListParameters(uri) == [method |-> "GET", path |-> <<Lit(uri)>>, args |-> NoArgs]

\* FetchPage without the test of the URI.
FetchPageAlways(call, uri, opts) == Request(call, ListParameters(uri), TRUE, opts)

\* PaginatedResult.nextPage / previousPage on the instance the caller holds.
FetchPage(call, uri, opts) ==
  IF TruthyUri(uri)
  THEN Request(call, ListParameters(uri), TRUE, opts)
  ELSE Done(call, NoResult)

NextPage(c) ==
  /\ calls[c].pc = "idle"
  /\ calls' = [calls EXCEPT ![c] = FetchPage([Idle EXCEPT !.kind = "nextPage"],
                                             page.pagination.next_uri, options)]
  /\ UNCHANGED <<options, page, issued>>

PreviousPage(c) ==
  /\ calls[c].pc = "idle"
  /\ calls' = [calls EXCEPT ![c] = FetchPage([Idle EXCEPT !.kind = "previousPage"],
                                             page.pagination.previous_uri, options)]
  /\ UNCHANGED <<options, page, issued>>

\* The response to a call sent without authentication.
PlainResponse(c, resp) ==
  /\ calls[c].pc = "plain"
  /\ calls' = [calls EXCEPT ![c] = Complete(Receive(@, resp), resp)]
  /\ UNCHANGED <<options, page, issued>>

\* The response to the first bearer call of oauthRequest.
FirstResponse(c, resp) ==
  /\ calls[c].pc = "first"
  /\ calls' = [calls EXCEPT ![c] =
                 LET out == Settle(resp)
                 IN IF out.err = NoError
                    THEN Finish(Receive(@, resp), out.json)
                    ELSE Catch(Receive(@, resp), out.err, options.auth)]
  /\ UNCHANGED <<options, page, issued>>

\* RefreshResponse storing what the failed refresh call left: no tokens.
RefreshResponseClearing(c, resp) ==
  /\ calls[c].pc = "refresh"
  /\ Ok(resp) => issued < MaxIssued
  /\ LET out == Settle(resp)
         tokens == TokensOf(Unwrap(out.json))
         received == Receive(calls[c], resp)
     IN IF out.err # NoError
        THEN /\ calls' = [calls EXCEPT ![c] = Fail(received, out.err)]
             /\ options' = StoreTokens(options, tokens)
        ELSE /\ options' = StoreTokens(options, tokens)
             /\ calls' = [calls EXCEPT ![c] = AfterRefresh(received, tokens, options'.auth)]
  /\ issued' = IF Ok(resp) THEN issued + 1 ELSE issued
  /\ page' = page

\* The response to the refresh-token call. The server issues a new pair of
\* tokens with each successful answer (at most MaxIssued in a run).
RefreshResponse(c, resp) ==
  /\ calls[c].pc = "refresh"
  /\ Ok(resp) => issued < MaxIssued
  /\ LET out == Settle(resp)
         tokens == TokensOf(Unwrap(out.json))
         received == Receive(calls[c], resp)
     IN IF out.err # NoError
        THEN /\ calls' = [calls EXCEPT ![c] = Fail(received, out.err)]
             /\ options' = options
        ELSE /\ options' = StoreTokens(options, tokens)
             /\ calls' = [calls EXCEPT ![c] = AfterRefresh(received, tokens, options'.auth)]
  /\ issued' = IF Ok(resp) THEN issued + 1 ELSE issued
  /\ page' = page

\* The promise returned by the refresh callback settles.
CallbackSettled(c, fulfilled) ==
  /\ calls[c].pc = "callback"
  /\ calls' = [calls EXCEPT ![c] =
                 IF fulfilled THEN Retry(@, options.auth)
                 ELSE Fail(@, Error("callback rejected"))]
  /\ UNCHANGED <<options, page, issued>>

\* RetryResponse with the retry going through the catch block again.
RetryResponseAgain(c, resp) ==
  /\ calls[c].pc = "retry"
  /\ calls' = [calls EXCEPT ![c] =
                 LET out == Settle(resp)
                 IN IF out.err = NoError
                    THEN Finish(Receive(@, resp), out.json)
                    ELSE Catch(Receive(@, resp), out.err, options.auth)]
  /\ UNCHANGED <<options, page, issued>>

\* The response to the call sent again after a refresh.
RetryResponse(c, resp) ==
  /\ calls[c].pc = "retry"
  /\ calls' = [calls EXCEPT ![c] = Complete(Receive(@, resp), resp)]
  /\ UNCHANGED <<options, page, issued>>

\* The response to the time fetch of apiKeyRequest.
TimeResponse(c, resp) ==
  /\ calls[c].pc = "time"
  /\ calls' = [calls EXCEPT ![c] =
                 LET out == Settle(resp)
                 IN IF out.err # NoError
                    THEN Fail(Receive(@, resp), out.err)
                    ELSE SignedRequest(Receive(@, resp), Unwrap(out.json),
                                       options.auth)]
  /\ UNCHANGED <<options, page, issued>>

\* The response to the signed call of apiKeyRequest.
SignedResponse(c, resp) ==
  /\ calls[c].pc = "signed"
  /\ calls' = [calls EXCEPT ![c] = Complete(Receive(@, resp), resp)]
  /\ UNCHANGED <<options, page, issued>>

\* PaginatedResult.hasNext / hasPrevious
HasNext(p) == TruthyUri(p.pagination.next_uri)

HasPrevious(p) == TruthyUri(p.pagination.previous_uri)

\* The caller has seen how the call ended and lets go of it.
Return(c) ==
  /\ calls[c].pc \in {"done", "failed"}
  /\ calls' = [calls EXCEPT ![c] = Idle]
  /\ UNCHANGED <<options, page, issued>>

\* The caller goes on with the PaginatedResult a page fetch returned.
Follow(c) ==
  /\ calls[c].pc = "done"
  /\ calls[c].kind \in {"nextPage", "previousPage"}
  /\ calls[c].result.kind = "PaginatedResult"
  /\ page' = calls[c].result
  /\ calls' = [calls EXCEPT ![c] = Idle]
  /\ UNCHANGED <<options, issued>>

----------------------------------------------------------------------------
(* The OAuth client: calls of an authenticated endpoint                     *)

\* wallet.showCurrentUser: createMethod(this, "GET", "/v2/user", true)
UserParameters ==
  [method |-> "GET", path |-> <<Lit(""), Lit("v2"), Lit("user")>>, args |-> NoArgs]

\* wallet.showAccount: createMethodWithArgs(this, "GET", "/v2/accounts/:account_id")
AccountParameters ==
  [method |-> "GET",
   path |-> <<Lit(""), Lit("v2"), Lit("accounts"), Ph("account_id")>>,
   args |-> Obj(<<[k |-> "account_id", v |-> "primary"]>>)]

OAuthEndpoints == {UserParameters, AccountParameters}

\* What the API server may answer to an authenticated call.
ApiResponses ==
  {Response(200, Envelope(ObjectData("user"), NoPagination)),
   Response(401, ErrorBody(<<"expired_token">>)),
   Response(401, NotJson),
   Response(500, ErrorBody(<<>>))}

\* What the authorization server may answer to a refresh-token call.
TokenResponses ==
  {Response(200, TokenBody(AccessToken(issued + 1), RefreshToken(issued + 1))),
   Response(401, ErrorBody(<<"invalid_grant">>))}

FirstPage == PaginatedResult(ArrayData("page0"), Pagination(Null, Null))

InitOAuth ==
  /\ options \in {OAuthOptions(TRUE), OAuthOptions(FALSE)}
  /\ calls = [c \in Calls |-> Idle]
  /\ page = FirstPage
  /\ issued = 0

OAuthStep(c) ==
  \/ \E resp \in ApiResponses : FirstResponse(c, resp)
  \/ \E resp \in TokenResponses : RefreshResponse(c, resp)
  \/ \E fulfilled \in BOOLEAN : CallbackSettled(c, fulfilled)
  \/ \E resp \in ApiResponses : RetryResponse(c, resp)

\* Calls made concurrently on one client, each slot used once.
NextOAuth ==
  \E c \in Calls :
    \/ ApiRequest(c, UserParameters, TRUE)
    \/ OAuthStep(c)

SpecOAuth == InitOAuth /\ [][NextOAuth]_vars

\* Calls made one after the other: the caller awaits each before the next.
NextChain ==
  \/ \E parameters \in OAuthEndpoints : ApiRequest(1, parameters, TRUE)
  \/ OAuthStep(1)
  \/ Return(1)

SpecChain == InitOAuth /\ [][NextChain]_vars

----------------------------------------------------------------------------
(* Properties of the OAuth flow                                             *)

\* The refresh-token call: POST /oauth/token with grant_type=refresh_token.
IsRefreshCall(h) ==
  /\ h.method = "POST"
  /\ h.path = [segs |-> <<Lit(""), Lit("oauth"), Lit("token")>>, query |-> <<>>]
  /\ h.body.present
  /\ HasKey(h.body.kv, "grant_type")
  /\ Get(h.body.kv, "grant_type") = "refresh_token"

\* A transport call of the original request.
IsOriginalCall(call, h) ==
  /\ h.method = call.req.method
  /\ h.path = call.req.path
  /\ h.headers.auth = "bearer"

RefreshCalls(call) ==
  Cardinality({i \in 1..Len(call.http) : IsRefreshCall(call.http[i])})

OriginalCalls(call) ==
  Cardinality({i \in 1..Len(call.http) : IsOriginalCall(call, call.http[i])})

\* The error the i-th transport call of the call failed with (NoError if none).
FailureOf(call, i) == Settle(call.received[i]).err

\* The first transport call of the call failed with status 401.
First401(call) ==
  /\ call.auth
  /\ Len(call.received) >= 1
  /\ FailureOf(call, 1).status = 401

\* C1: an authenticated OAuth request whose first transport call fails with
\* status 401 makes exactly one refresh-token call (POST /oauth/token,
\* grant_type=refresh_token), made right when the 401 is caught, and sends
\* the original call again exactly once, when the refresh (and the callback)
\* went through; if the call sent again fails with 401 too, that error is the
\* one the caller gets and there is still only the one refresh call.
C1_OneRefreshOneRetry ==
  \A c \in Calls :
    LET call == calls[c]
    IN First401(call) =>
         /\ RefreshCalls(call) = 1
         /\ IsRefreshCall(call.http[2])
         /\ OriginalCalls(call) \in {1, 2}
         /\ Len(call.received) >= 2 /\ FailureOf(call, 2) = NoError
              /\ call.pc # "callback" /\ call.err.kind # "callback rejected"
              => /\ OriginalCalls(call) = 2
                 /\ IsOriginalCall(call, call.http[3])
                 /\ Len(call.http) = 3
         /\ Len(call.received) = 3 /\ FailureOf(call, 3).status = 401
              => /\ call.pc = "failed"
                 /\ call.err = FailureOf(call, 3)
                 /\ RefreshCalls(call) = 1
                 /\ Len(call.http) = 3

\* A call whose first attempt got 401, whose retry got 401 again, and which
\* failed with that error.
C1_Witness ==
  \E c \in Calls :
    /\ First401(calls[c])
    /\ Len(calls[c].received) = 3
    /\ FailureOf(calls[c], 3).status = 401
    /\ calls[c].pc = "failed"
    /\ OriginalCalls(calls[c]) = 2

\* The step in which call c gets the response to its first transport call.
FirstAnswered(c) == calls[c].pc = "first" /\ calls'[c].pc # "first"

\* C2: when the first transport call of an authenticated OAuth request fails
\* with a status other than 401, the call fails with that error at once, no
\* refresh-token call and no retry are made (the call has issued its one
\* HTTP call only), and accessToken and refreshToken of the shared auth
\* config are left as they were.
C2_Non401Propagates ==
  [][\A c \in Calls :
       FirstAnswered(c) /\ FailureOf(calls'[c], 1) # NoError
                        /\ FailureOf(calls'[c], 1).status # 401
         => /\ calls'[c].pc = "failed"
            /\ calls'[c].err = FailureOf(calls'[c], 1)
            /\ Len(calls'[c].http) = 1
            /\ RefreshCalls(calls'[c]) = 0
            /\ options'.auth.accessToken = options.auth.accessToken
            /\ options'.auth.refreshToken = options.auth.refreshToken]_vars

\* A call that failed on a status 500 answer to its first transport call.
C2_Witness ==
  \E c \in Calls :
    /\ calls[c].pc = "failed"
    /\ Len(calls[c].received) = 1
    /\ calls[c].received[1].status = 500
    /\ calls[c].err.status = 500
    /\ Len(calls[c].http) = 1

\* The steps of a refresh-then-retry chain up to the retry, in their order.
ChainWithCallback ==
  <<"send", "receive", "send", "receive", "store", "callback", "callback done", "send">>

ChainWithoutCallback ==
  <<"send", "receive", "send", "receive", "store", "send">>

IsPrefix(s, t) == Len(s) <= Len(t) /\ SubSeq(t, 1, Len(s)) = s

\* C3: in a refresh-then-retry chain the steps come strictly in this order:
\* the refresh response is received, accessToken and refreshToken of the
\* shared auth config are both replaced by the returned values, the refresh
\* callback (if there is one) is called with the new tokens and awaited, and
\* only then is the retry sent; the retry's bearer header carries the new
\* access token, not the rejected one.
C3_RefreshThenRetryOrder ==
  LET call == calls[1]
      returned == [access_token |-> call.received[2].body.access_token,
                   refresh_token |-> call.received[2].body.refresh_token]
  IN First401(call) /\ Len(call.received) >= 2 /\ FailureOf(call, 2) = NoError =>
       /\ call.tokens = returned
       /\ options.auth.accessToken = returned.access_token
       /\ options.auth.refreshToken = returned.refresh_token
       /\ options.auth.refreshCallback =>
            /\ call.callbacks = <<returned>>
            /\ IsPrefix(call.trace, ChainWithCallback)
                 \/ IsPrefix(ChainWithCallback, call.trace)
                 \/ call.trace = SubSeq(ChainWithCallback, 1, 6) \o <<"throw">>
            /\ call.pc = "callback" => Len(call.http) = 2
       /\ ~options.auth.refreshCallback =>
            /\ call.callbacks = <<>>
            /\ IsPrefix(ChainWithoutCallback, call.trace)
       /\ Len(call.http) >= 3 =>
            /\ Len(call.http) = 3
            /\ IsOriginalCall(call, call.http[3])
            /\ call.http[3].headers = Bearer(returned.access_token)
            /\ call.http[3].headers.token # call.http[1].headers.token

\* A chain with a callback whose retry has been sent.
C3_Witness ==
  /\ First401(calls[1])
  /\ options.auth.refreshCallback
  /\ calls[1].pc = "retry"
  /\ calls[1].callbacks # <<>>
  /\ Len(calls[1].http) = 3

\* The refresh token sent by the refresh-token call of a call.
SentRefreshToken(call) == Get(call.http[2].body.kv, "refresh_token")

\* The call has stored the tokens of its refresh.
HasStored(call) == call.tokens # NoTokens

\* C4: nothing keeps concurrent calls apart on the shared auth config: a
\* call that catches a 401 sends its own refresh-token call with whatever
\* refresh token the config holds at that moment, and a call whose refresh
\* succeeds writes accessToken and refreshToken whatever the other calls
\* have done, so that a later write replaces an earlier one.
C4_NoMutualExclusion ==
  [][\A c \in Calls :
       /\ calls[c].pc = "first" /\ calls'[c].pc = "refresh"
            => SentRefreshToken(calls'[c]) = options.auth.refreshToken
       /\ calls[c].pc = "refresh" /\ calls'[c].pc \in {"callback", "retry"}
            => /\ options'.auth.accessToken = calls'[c].tokens.access_token
               /\ options'.auth.refreshToken = calls'[c].tokens.refresh_token]_vars

\* Two calls that both got 401, both sent the same refresh token, and both
\* stored their tokens; the config holds those of one, the other's are gone.
C4_Witness ==
  \E c, d \in Calls :
    /\ c # d
    /\ First401(calls[c]) /\ First401(calls[d])
    /\ RefreshCalls(calls[c]) = 1 /\ RefreshCalls(calls[d]) = 1
    /\ SentRefreshToken(calls[c]) = SentRefreshToken(calls[d])
    /\ HasStored(calls[c]) /\ HasStored(calls[d])
    /\ calls[c].tokens # calls[d].tokens
    /\ options.auth.accessToken = calls[d].tokens.access_token
    /\ options.auth.refreshToken = calls[d].tokens.refresh_token

----------------------------------------------------------------------------
(* The paginator: page fetches on clients of every auth configuration       *)

PreviousUri == "/v2/accounts?ending_before=A"

NextUri == "/v2/accounts?starting_after=B"

Cursors ==
  {Pagination(Null, Null), Pagination(Null, NextUri),
   Pagination(PreviousUri, Null), Pagination(PreviousUri, NextUri)}

\* What the API server may answer to the GET of a page.
PageResponses ==
  {Response(200, Envelope(data, pagination)) :
     data \in {NoData, NullData, ArrayData("page1"), ObjectData("item")},
     pagination \in {NoPagination, Pagination(Null, NextUri),
                     Pagination(PreviousUri, Null)}}
  \cup {Response(401, ErrorBody(<<"expired_token">>)),
        Response(500, ErrorBody(<<>>))}

\* What the API server may answer to GET /v2/time.
TimeResponses ==
  {Response(200, Envelope(ObjectData("1600000000"), NoPagination)),
   Response(500, ErrorBody(<<>>))}

InitPage ==
  /\ options \in {NoOptions, OtherOptions, ApiKeyOptions,
                  OAuthOptions(FALSE), OAuthOptions(TRUE)}
  /\ calls = [c \in Calls |-> Idle]
  /\ page \in {PaginatedResult(ArrayData("page0"), cursor) : cursor \in Cursors}
  /\ issued = 0

\* One caller walking the pages, one fetch at a time.
NextPaging ==
  \/ NextPage(1)
  \/ PreviousPage(1)
  \/ \E resp \in PageResponses : FirstResponse(1, resp)
  \/ \E resp \in TokenResponses : RefreshResponse(1, resp)
  \/ \E fulfilled \in BOOLEAN : CallbackSettled(1, fulfilled)
  \/ \E resp \in PageResponses : RetryResponse(1, resp)
  \/ \E resp \in TimeResponses : TimeResponse(1, resp)
  \/ \E resp \in PageResponses : SignedResponse(1, resp)
  \/ Return(1)
  \/ Follow(1)

SpecPage == InitPage /\ [][NextPaging]_vars

----------------------------------------------------------------------------
(* Properties of the paginator                                              *)

IsPageFetch(call) == call.kind \in {"nextPage", "previousPage"}

\* The cursor URI a page fetch of this kind reads from the instance.
UriOf(call) ==
  IF call.kind = "nextPage" THEN page.pagination.next_uri
  ELSE page.pagination.previous_uri

\* A GET of the given URI.
IsGetOf(h, uri) ==
  h.method = "GET" /\ h.path = [segs |-> <<Lit(uri)>>, query |-> <<>>]

\* The unauthenticated GET /v2/time.
IsTimeCall(h) ==
  /\ h.method = "GET"
  /\ h.path = [segs |-> <<Lit(""), Lit("v2"), Lit("time")>>, query |-> <<>>]
  /\ h.headers = NoHeaders

GetsOf(call, uri) ==
  Cardinality({i \in 1..Len(call.http) : IsGetOf(call.http[i], uri)})

\* C5: on a PaginatedResult whose cursor has next_uri = null, hasNext() is
\* false and nextPage() resolves to nothing without any HTTP call; the same
\* for previous_uri = null, hasPrevious() and previousPage().
C5_NullUriIsNoOp ==
  /\ page.pagination.next_uri = Null => ~HasNext(page)
  /\ page.pagination.previous_uri = Null => ~HasPrevious(page)
  /\ \A c \in Calls :
       IsPageFetch(calls[c]) /\ calls[c].pc # "idle" /\ UriOf(calls[c]) = Null
         => /\ calls[c].pc = "done"
            /\ calls[c].result = NoResult
            /\ calls[c].http = <<>>

\* nextPage() has resolved to nothing on an instance without a next page.
C5_Witness ==
  /\ page.pagination.next_uri = Null
  /\ calls[1].kind = "nextPage"
  /\ calls[1].pc = "done"
  /\ calls[1].result = NoResult

\* The last response a call received.
Last(call) == call.received[Len(call.received)]

\* The PaginatedResult made of a fetched response.
Fetched(resp) ==
  PaginatedResult(IF IsArray(resp.body.data) THEN resp.body.data
                  ELSE Singleton(resp.body.data),
                  resp.body.pagination)

\* C6 as stated: a settled nextPage() on a non-null next_uri has issued
\* exactly one HTTP call, the GET of that URI, whatever the auth
\* configuration, and returned a new PaginatedResult of the fetched page
\* and cursor.
C6_ExactlyOneHttpCall ==
  \A c \in Calls :
    LET call == calls[c]
    IN call.kind = "nextPage" /\ TruthyUri(UriOf(call)) /\ call.pc = "done"
         => /\ Len(call.http) = 1
            /\ IsGetOf(call.http[1], UriOf(call))
            /\ call.result = Fetched(Last(call))

\* C6 (amended): nextPage() on a non-null next_uri makes one authenticated
\* request for that URI. Every HTTP call it issues is a GET of that URI, the
\* GET /v2/time of API-key signing, or the refresh-token call of OAuth. An
\* OAuth client sends the GET once, and once more after a refresh (two GETs
\* and one refresh call in all); an API-key client sends GET /v2/time first
\* and then the GET, at most once; a client without a usable auth config
\* sends nothing. When nextPage() succeeds it returns a new PaginatedResult
\* with the page and the cursor of the last response, and no step of the
\* fetch changes the instance it was called on.
C6_OnePageRequest ==
  /\ [](\A c \in Calls :
          LET call == calls[c]
              uri == UriOf(call)
          IN call.kind = "nextPage" /\ call.pc # "idle" /\ TruthyUri(uri) =>
               /\ \A i \in 1..Len(call.http) :
                    \/ IsGetOf(call.http[i], uri)
                    \/ IsTimeCall(call.http[i])
                    \/ IsRefreshCall(call.http[i])
               /\ options.authStrategy = "oauth" =>
                    /\ IsGetOf(call.http[1], uri)
                    /\ GetsOf(call, uri) = 1 + (IF Len(call.http) = 3 THEN 1 ELSE 0)
                    /\ RefreshCalls(call) = (IF Len(call.http) >= 2 THEN 1 ELSE 0)
                    /\ Len(call.http) <= 3
               /\ options.authStrategy = "apikey" =>
                    /\ IsTimeCall(call.http[1])
                    /\ GetsOf(call, uri) = Len(call.http) - 1
                    /\ Len(call.http) <= 2
                    /\ call.pc = "done" => Len(call.http) = 2
               /\ options.authStrategy \notin {"oauth", "apikey"} =>
                    call.http = <<>> /\ call.pc = "failed"
               /\ call.pc = "done" =>
                    /\ IsGetOf(call.http[Len(call.http)], uri)
                    /\ call.result = Fetched(Last(call)))
  /\ [][(\E c \in Calls : calls'[c] # calls[c] /\ calls'[c].pc # "idle")
          => page' = page]_vars

\* nextPage() of an API-key client has succeeded after two HTTP calls.
C6_Witness ==
  /\ options.authStrategy = "apikey"
  /\ calls[1].kind = "nextPage"
  /\ calls[1].pc = "done"
  /\ Len(calls[1].http) = 2
  /\ calls[1].result.kind = "PaginatedResult"
  /\ calls[1].result # page

\* The call has got the final answer to its page request: a success.
PageAnswered(call) ==
  /\ IsPageFetch(call)
  /\ Len(call.received) >= 1
  /\ Len(call.received) = Len(call.http)
  /\ IsGetOf(call.http[Len(call.http)], UriOf(call))
  /\ Settle(Last(call)).err = NoError

\* C7: a page fetch whose response carries a pagination object and a data
\* payload that is not an array succeeds, and its result is the
\* PaginatedResult whose page is the one-element sequence of that payload.
C7_SingletonPage ==
  \A c \in Calls :
    LET call == calls[c]
    IN PageAnswered(call) /\ Last(call).body.pagination.present
                          /\ ~IsArray(Last(call).body.data)
         => /\ call.pc = "done"
            /\ call.result = PaginatedResult(Singleton(Last(call).body.data),
                                             Last(call).body.pagination)

\* C8: a page fetch whose successful response carries no pagination object
\* fails with the missing-pagination error, returns no PaginatedResult and
\* issues no further HTTP call.
C8_MissingPagination ==
  \A c \in Calls :
    LET call == calls[c]
    IN PageAnswered(call) /\ ~Last(call).body.pagination.present
         => /\ call.pc = "failed"
            /\ call.err = Error("no pagination object")
            /\ call.result = NoResult

\* A page fetch that failed on a response with an array and no cursor.
C8_Witness ==
  \E c \in Calls :
    /\ PageAnswered(calls[c])
    /\ ~Last(calls[c]).body.pagination.present
    /\ IsArray(Last(calls[c]).body.data)
    /\ calls[c].pc = "failed"
    /\ calls[c].err = Error("no pagination object")

----------------------------------------------------------------------------
(* The resolver: requests of every verb, template and argument mapping      *)

\* Path templates of the endpoint table with 0, 1 and 2 placeholders
\* (wallet.listAccounts, wallet.showAccount, wallet.showBuy).
Templates ==
  {<<Lit(""), Lit("v2"), Lit("accounts")>>,
   <<Lit(""), Lit("v2"), Lit("accounts"), Ph("account_id")>>,
   <<Lit(""), Lit("v2"), Lit("accounts"), Ph("account_id"), Lit("buys"), Ph("buy_id")>>}

ArgNames == {"account_id", "buy_id", "limit", "order"}

ArgValues == {"x", Undefined}

\* The mappings of n entries with distinct keys, in every insertion order.
RECURSIVE Mappings(_)
Mappings(n) ==
  IF n = 0
  THEN {<<>>}
  ELSE {Append(kv, [k |-> k, v |-> v]) :
          kv \in {m \in Mappings(n - 1) : Len(m) = n - 1},
          k \in ArgNames, v \in ArgValues}

DistinctKeys(kv) == Cardinality(Keys(kv)) = Len(kv)

ArgumentMappings ==
  {NoArgs} \cup
  {Obj(kv) : kv \in {m \in UNION {Mappings(n) : n \in 0..MaxArgs} : DistinctKeys(m)}}

ResolverRequests ==
  {[method |-> method, path |-> path, args |-> args] :
     method \in RequestMethod, path \in Templates, args \in ArgumentMappings}

ResolverResponses ==
  {Response(200, Envelope(ObjectData("item"), NoPagination)),
   Response(500, ErrorBody(<<"internal">>))}

InitResolve ==
  /\ options = NoOptions
  /\ calls = [c \in Calls |-> Idle]
  /\ page = FirstPage
  /\ issued = 0

\* One caller making unauthenticated requests, one at a time.
NextResolve ==
  \/ \E parameters \in ResolverRequests : ApiRequest(1, parameters, FALSE)
  \/ \E resp \in ResolverResponses : PlainResponse(1, resp)
  \/ Return(1)

SpecResolve == InitResolve /\ [][NextResolve]_vars

----------------------------------------------------------------------------
(* Properties of the resolver                                               *)

\* The names of the ':name' placeholders of a path template.
Placeholders(path) == {path[i].s : i \in {j \in 1..Len(path) : path[j].ph}}

\* The keys of the arguments given; none when args is absent.
GivenKeys(args) == IF args.present THEN Keys(args.kv) ELSE {}

\* The keys that appear in a query string <<"?", k, "=", v, "&", ...>>.
QueryKeys(query) ==
  {query[i] : i \in {j \in 1..Len(query) : j < Len(query) /\ query[j + 1] = "="}}

\* C9: for every request, path resolution succeeds exactly when every
\* placeholder name of the template is a key of args (args present or not)
\* and fails with the missing-path-argument error otherwise; on success no
\* substituted key is left in the residual arguments, the query string or
\* the body, and the caller's args object is as it was given.
C9_ResolvesIffAllNamesGiven ==
  \A c \in Calls :
    LET call == calls[c]
        names == Placeholders(call.parameters.path)
    IN call.kind = "request" /\ call.pc # "idle" =>
         /\ call.err.kind # "missing path argument"
              <=> names \subseteq GivenKeys(call.parameters.args)
         /\ call.err.kind = "missing path argument" => call.http = <<>>
         /\ call.err.kind # "missing path argument" =>
              /\ names \cap Keys(call.residual) = {}
              /\ names \cap QueryKeys(call.req.path.query) = {}
              /\ names \cap Keys(call.req.body.kv) = {}
              /\ call.args = call.parameters.args

RECURSIVE JoinPairs(_)
JoinPairs(kv) ==
  IF kv = <<>> THEN <<>>
  ELSE IF Len(kv) = 1 THEN <<kv[1].k, "=", Str(kv[1].v)>>
  ELSE <<kv[1].k, "=", Str(kv[1].v), "&">> \o JoinPairs(Tail(kv))

\* C10: for a GET with residual arguments the path ends with "?" followed
\* by the key=value pairs of exactly the residual keys whose value is not
\* undefined, in insertion order, with one "&" between two pairs and none
\* before the first or after the last, wherever the undefined values are.
C10_QueryString ==
  \A c \in Calls :
    LET call == calls[c]
    IN call.kind = "request" /\ call.pc # "idle" /\ call.req.method = "GET"
         /\ call.err.kind # "missing path argument" /\ call.residual # <<>>
         => call.req.path.query = <<"?">> \o JoinPairs(SelectSeq(call.residual, IsDefined))

\* C11: for each of the verbs POST, PUT and DELETE the arguments left after
\* path substitution are handed on verbatim as the body of the transport
\* call.
C11_ResidualIsBody ==
  \A c \in Calls :
    LET call == calls[c]
    IN call.kind = "request" /\ call.pc # "idle"
         /\ call.req.method \in {"POST", "PUT", "DELETE"}
         /\ call.err.kind # "missing path argument" /\ call.residual # <<>>
         => /\ call.req.body = Obj(call.residual)
            /\ Len(call.http) >= 1
            /\ call.http[1].body = Stringify(Obj(call.residual))

----------------------------------------------------------------------------
(* The dispatcher: requests with and without authentication on clients of   *)
(* every auth configuration, answered in every shape                        *)

\* wallet.listAccounts: createMethodWithOptionalArgs(this, "GET", "/v2/accounts")
ListAccountsParameters ==
  [method |-> "GET", path |-> <<Lit(""), Lit("v2"), Lit("accounts")>>,
   args |-> Obj(<<[k |-> "limit", v |-> "25"]>>)]

\* wallet.placeBuyOrder: createMethodWithArgs(this, "POST", "/v2/accounts/:account_id/buys")
PlaceBuyOrderParameters ==
  [method |-> "POST",
   path |-> <<Lit(""), Lit("v2"), Lit("accounts"), Ph("account_id"), Lit("buys")>>,
   args |-> Obj(<<[k |-> "account_id", v |-> "primary"],
                  [k |-> "amount", v |-> "10"]>>)]

\* wallet.updateAccount: createMethodWithArgs(this, "PUT", "/v2/accounts/:account_id")
UpdateAccountParameters ==
  [method |-> "PUT",
   path |-> <<Lit(""), Lit("v2"), Lit("accounts"), Ph("account_id")>>,
   args |-> Obj(<<[k |-> "account_id", v |-> "primary"],
                  [k |-> "name", v |-> "savings"]>>)]

\* wallet.showAccount called with a mapping that lacks account_id.
UnresolvedParameters ==
  [AccountParameters EXCEPT !.args = Obj(<<[k |-> "limit", v |-> "25"]>>)]

DispatchRequests ==
  {UserParameters, ListAccountsParameters, PlaceBuyOrderParameters,
   UpdateAccountParameters, UnresolvedParameters}

\* What the API server may answer: an envelope with or without data and
\* cursor, an error with or without the errors member, a body that is not
\* JSON (a proxy's error page, an empty body).
DispatchResponses ==
  {Response(200, Envelope(data, pagination)) :
     data \in {NoData, NullData, ArrayData("list"), ObjectData("item")},
     pagination \in {NoPagination, Pagination(Null, NextUri)}}
  \cup {Response(401, ErrorBody(<<"expired_token">>)),
        Response(500, EmptyJson),
        Response(502, NotJson),
        Response(204, NotJson)}

\* What the API server may answer to GET /v2/time.
ClockResponses ==
  {Response(200, Envelope(ObjectData(epoch), NoPagination)) :
     epoch \in {"1600000000", "1600000060"}}
  \cup {Response(500, ErrorBody(<<>>))}

InitDispatch ==
  /\ options \in {NoOptions, OtherOptions, ApiKeyOptions, OAuthOptions(FALSE)}
  /\ calls = [c \in Calls |-> Idle]
  /\ page = FirstPage
  /\ issued = 0

\* One caller making requests one at a time.
NextDispatch ==
  \/ \E parameters \in DispatchRequests, auth \in BOOLEAN :
       ApiRequest(1, parameters, auth)
  \/ \E resp \in DispatchResponses : PlainResponse(1, resp)
  \/ \E resp \in DispatchResponses : FirstResponse(1, resp)
  \/ \E resp \in TokenResponses : RefreshResponse(1, resp)
  \/ \E resp \in DispatchResponses : RetryResponse(1, resp)
  \/ \E resp \in ClockResponses : TimeResponse(1, resp)
  \/ \E resp \in DispatchResponses : SignedResponse(1, resp)
  \/ Return(1)

SpecDispatch == InitDispatch /\ [][NextDispatch]_vars

----------------------------------------------------------------------------
(* Properties of the dispatcher                                             *)

\* A request that got past path resolution.
Resolved(call) ==
  call.kind = "request" /\ call.pc # "idle" /\ call.err.kind # "missing path argument"

\* C12: a successful response is unwrapped by the presence of its fields:
\* array data with a pagination field gives a PaginatedResult over that
\* array and cursor; a data field otherwise gives the bare payload; no data
\* field gives the full response object unchanged.
C12_UnwrapByPresence ==
  \A c \in Calls :
    LET call == calls[c]
        body == Last(call).body
    IN call.kind = "request" /\ call.pc = "done"
         => IF body.data # NoData
            THEN IF IsArray(body.data) /\ body.pagination.present
                 THEN call.result = PaginatedResult(body.data, body.pagination)
                 ELSE call.result.kind = "data" /\ call.result.data = body.data
            ELSE call.result.kind = "response" /\ call.result.json = body

\* C13: an auth-required request on a client without auth config fails with
\* the missing-authentication error, one on a client whose strategy tag is
\* neither 'apikey' nor 'oauth' fails with the unrecognized-strategy error,
\* both without a transport call; a request with the auth flag false makes
\* its transport call with no auth headers whatever the auth config is.
C13_AuthDispatch ==
  \A c \in Calls :
    LET call == calls[c]
    IN Resolved(call)
         => /\ call.auth /\ ~options.present
               => /\ call.pc = "failed"
                  /\ call.err = Error("Missing authentication")
                  /\ call.http = <<>>
            /\ call.auth /\ options.present
                 /\ options.authStrategy \notin {"apikey", "oauth"}
               => /\ call.pc = "failed"
                  /\ call.err = Error("Unrecognized authStrategy")
                  /\ call.http = <<>>
            /\ ~call.auth
               => /\ Len(call.http) = 1
                  /\ call.http[1].method = call.req.method
                  /\ call.http[1].path = call.req.path
                  /\ call.http[1].headers = NoHeaders

\* An auth-required request failed on the unrecognized strategy tag with
\* nothing sent.
C13_Witness ==
  /\ options = OtherOptions
  /\ calls[1].kind = "request" /\ calls[1].auth
  /\ calls[1].parameters = PlaceBuyOrderParameters
  /\ calls[1].pc = "failed"
  /\ calls[1].err = Error("Unrecognized authStrategy")
  /\ calls[1].http = <<>>

\* The epoch member of the payload of a time response.
EpochIn(resp) == resp.body.data.id

\* The signed call of an API-key request, stamped with the given epoch.
IsSignedCall(h, call, epoch) ==
  /\ h.method = call.req.method
  /\ h.path = call.req.path
  /\ h.body = Stringify(call.req.body)
  /\ h.headers.auth = "apikey"
  /\ h.headers.key = "key"
  /\ h.headers.timestamp = epoch
  /\ h.headers.sign =
       [secret |-> "secret",
        payload |-> <<epoch, call.req.method, call.req.path,
                      Stringify(call.req.body)>>]

\* C14: on an API-key client an authenticated request first makes one
\* unauthenticated GET /v2/time and then exactly one signed call whose
\* timestamp header and signature payload use the fetched epoch, the payload
\* being timestamp, verb, resolved path with its query, JSON body or empty;
\* a failed time fetch sends no signed call, and a failed signed call (401
\* included) propagates with no retry and no refresh.
C14_ApiKeyFlow ==
  \A c \in Calls :
    LET call == calls[c]
    IN Resolved(call) /\ call.auth /\ options.authStrategy = "apikey"
         => /\ Len(call.http) \in {1, 2}
            /\ IsTimeCall(call.http[1])
            /\ call.http[1].body = NoArgs
            /\ call.pc = "time" <=> call.received = <<>>
            /\ Len(call.received) >= 1 /\ FailureOf(call, 1) # NoError
               => /\ Len(call.http) = 1
                  /\ call.pc = "failed"
                  /\ call.err = FailureOf(call, 1)
            /\ Len(call.received) >= 1 /\ FailureOf(call, 1) = NoError
               => /\ Len(call.http) = 2
                  /\ IsSignedCall(call.http[2], call, EpochIn(call.received[1]))
            /\ call.pc = "signed" <=> Len(call.http) = 2 /\ Len(call.received) = 1
            /\ Len(call.received) = 2 /\ FailureOf(call, 2) # NoError
               => /\ call.pc = "failed"
                  /\ call.err = FailureOf(call, 2)
            /\ Len(call.received) = 2 /\ FailureOf(call, 2) = NoError
               => call.pc = "done"
            /\ options = ApiKeyOptions

\* A request with a body was signed with the fetched epoch, answered 401, and
\* failed with that error after the two calls.
C14_Witness ==
  /\ options = ApiKeyOptions
  /\ calls[1].parameters = PlaceBuyOrderParameters /\ calls[1].auth
  /\ Len(calls[1].http) = 2
  /\ IsTimeCall(calls[1].http[1])
  /\ calls[1].received[1].body.data = ObjectData("1600000060")
  /\ calls[1].http[2].headers.timestamp = "1600000060"
  /\ calls[1].http[2].headers.sign.payload[4] = Obj(<<[k |-> "amount", v |-> "10"]>>)
  /\ Len(calls[1].received) = 2
  /\ calls[1].received[2].status = 401
  /\ calls[1].pc = "failed"
  /\ calls[1].err.status = 401

\* C15: a transport call performs exactly one HTTP call; on a non-success
\* status it fails with the error carrying the numeric status and the
\* server's error list, the list being empty whenever the body is not of the
\* error shape (no errors member, or not JSON at all); on a success status
\* it returns the parsed JSON.
C15_TransportError ==
  \A c \in Calls :
    LET call == calls[c]
        resp == call.received[1]
    IN Resolved(call) /\ ~call.auth /\ call.pc \in {"done", "failed"}
         => /\ Len(call.http) = 1 /\ Len(call.received) = 1
            /\ ~Ok(resp)
               => /\ call.pc = "failed"
                  /\ call.err.kind = "RequestError"
                  /\ call.err.status = resp.status
                  /\ call.err.messages =
                       IF resp.body.parse /\ resp.body.errors.present
                       THEN resp.body.errors.list
                       ELSE <<>>
            /\ Ok(resp) /\ resp.body.parse
               => /\ call.pc = "done"
                  /\ call.result = Unwrap(resp.body)

----------------------------------------------------------------------------
(* Properties of a failed refresh                                           *)

\* The shared config holds the pair of tokens the server issued last (the
\* pair the client was constructed with as long as none was issued).
HoldsLatestTokens ==
  /\ options.auth.accessToken = AccessToken(issued)
  /\ options.auth.refreshToken = RefreshToken(issued)

\* The refresh-token call of the call failed: the step from "refresh" to the
\* thrown error.
RefreshFails(c) == calls[c].pc = "refresh" /\ calls'[c].pc = "failed"

\* The callback or the retry failed after a refresh that went through.
FailsAfterRefresh(c) ==
  calls[c].pc \in {"callback", "retry"} /\ calls'[c].pc = "failed"

\* C16: when the refresh-token call made after a 401 fails, that error goes
\* to the caller, the original call is not sent again, the callback is not
\* invoked and both tokens of the shared config keep their values; when the
\* refresh succeeds and the callback or the retry then fails, the config
\* keeps the new tokens, and the next call on the client sends the
\* refreshed access token.
C16_FailedRefreshKeepsTokens ==
  /\ []HoldsLatestTokens
  /\ [](\A c \in Calls :
          calls[c].pc \notin {"idle", "refresh"} /\ calls[c].tokens = NoTokens
            => Len(calls[c].http) <= 2 /\ calls[c].callbacks = <<>>)
  /\ [][\A c \in Calls :
          /\ RefreshFails(c)
             => /\ calls'[c].err = FailureOf(calls'[c], 2)
                /\ Len(calls'[c].http) = 2
                /\ IsRefreshCall(calls'[c].http[2])
                /\ calls'[c].callbacks = <<>>
                /\ calls'[c].tokens = NoTokens
                /\ options'.auth.accessToken = options.auth.accessToken
                /\ options'.auth.refreshToken = options.auth.refreshToken
          /\ FailsAfterRefresh(c)
             => /\ options'.auth.accessToken = calls[c].tokens.access_token
                /\ options'.auth.refreshToken = calls[c].tokens.refresh_token
                /\ calls[c].tokens.access_token = AccessToken(issued)
                /\ issued' = issued /\ issued >= 1
          /\ calls[c].pc = "idle" /\ calls'[c].pc = "first"
             => /\ calls'[c].http[1].headers.auth = "bearer"
                /\ calls'[c].http[1].headers.token = AccessToken(issued)]_vars

\* A call sent the access token of an earlier refresh, was answered 401, and
\* its own refresh failed: two HTTP calls, no callback, the tokens of the
\* earlier refresh still in the config.
C16_Witness ==
  /\ issued = 1
  /\ calls[1].pc = "failed"
  /\ Len(calls[1].http) = 2
  /\ calls[1].http[1].headers.token = AccessToken(1)
  /\ calls[1].received[1].status = 401
  /\ IsRefreshCall(calls[1].http[2])
  /\ Get(calls[1].http[2].body.kv, "refresh_token") = RefreshToken(1)
  /\ Len(calls[1].received) = 2 /\ ~Ok(calls[1].received[2])
  /\ calls[1].err = FailureOf(calls[1], 2)
  /\ calls[1].callbacks = <<>>
  /\ options.auth.accessToken = AccessToken(1)
  /\ options.auth.refreshToken = RefreshToken(1)

====
